---- MODULE Spec2Model ----
(***************************************************************************)
(* whenwords: TimeAgo, Duration, ParseDuration, HumanDate and DateRange.   *)
(*                                                                         *)
(* The five functions are pure, so a behaviour is one call: from the idle  *)
(* state an action picks the arguments of one function, applies it and     *)
(* records arguments and results.                                          *)
(*                                                                         *)
(* Go values are modelled as follows.                                      *)
(*   string  a sequence of characters (one-character strings); the rune    *)
(*           U+017F (long s) is the character LongS.                       *)
(*   int64   in TimeAgo and ParseDuration, where the code's arithmetic can *)
(*           leave the 64-bit range: four 16-bit words, little-endian,     *)
(*           two's complement, with wrapping + - *.  In Duration and       *)
(*           HumanDate no operation of the code overflows on the values    *)
(*           drawn, and they are plain integers.                           *)
(*   float64 a 53-bit integer times a power of two; every operation rounds *)
(*           to nearest, ties to even.                                     *)
(***************************************************************************)
EXTENDS Integers, Sequences, FiniteSets, TLC

(***************************************************************************)
(* Bounds of the enumerated inputs.                                        *)
(***************************************************************************)
\* gaps are taken at every bucket edge and rounding tie, -MaxDelta..MaxDelta around it
MaxDelta == 2
\* rounding ties k + 1/2 units are taken for k up to MaxCount
MaxCount == 3
\* Duration is called with 0..MaxUnitCount of every unit
MaxUnitCount == 2
\* WithMaxUnits(n) is taken for n in -1..MaxUnitsOpt
MaxUnitsOpt == 3
\* ParseDuration is called with the strings of at most MaxTokens pieces
MaxTokens == 3
\* HumanDate and DateRange are called with instants 0..MaxDayShift days apart
MaxDayShift == 8

(***************************************************************************)
(* Word arithmetic.  A number is a little-endian sequence of 16-bit words; *)
(* its length is its width, + and * drop the carry out of the top word.    *)
(***************************************************************************)
Base == 2^16

WideLen == 2 * 4

Pow2(k) == 2^k

\* the tuple <<f[1], ..., f[n]>>
Tuple(f, n) == SubSeq(f, 1, n)

Zeros(n) == Tuple([i \in 1..n |-> 0], n)

\* the words of v, for 0 <= v < 2^31 and n >= 2
FromNat(v, n) == <<v % Base, v \div Base>> \o Zeros(n - 2)

\* word j of a, 0 outside a
Word(a, j) == IF j >= 1 /\ j <= Len(a) THEN a[j] ELSE 0

\* the carry into word i of a + b + c0, for c0 in 0..1
CarryIn(a, b, c0, i) ==
  \E j \in 0..(i - 1) :
    /\ IF j = 0 THEN c0 = 1 ELSE a[j] + b[j] >= Base
    /\ \A k \in (j + 1)..(i - 1) : a[k] + b[k] = Base - 1

\* a + b + c0, of the width of a
AddWords(a, b, c0) ==
  Tuple([i \in 1..Len(a) |->
           (a[i] + b[i] + IF CarryIn(a, b, c0, i) THEN 1 ELSE 0) % Base], Len(a))

NotWords(a) == Tuple([i \in 1..Len(a) |-> Base - 1 - a[i]], Len(a))

NegWords(a) == AddWords(NotWords(a), Zeros(Len(a)), 1)

SubWords(a, b) == AddWords(a, NotWords(b), 1)

\* a * 2^k and a \div 2^k for k >= 0, of the width of a
ShiftLeft(a, k) ==
  Tuple([i \in 1..Len(a) |->
           (Word(a, i - (k \div 16)) % Pow2(16 - (k % 16))) * Pow2(k % 16)
             + (Word(a, i - (k \div 16) - 1) \div Pow2(16 - (k % 16)))], Len(a))

ShiftRight(a, k) ==
  Tuple([i \in 1..Len(a) |->
           (Word(a, i + (k \div 16)) \div Pow2(k % 16))
             + (Word(a, i + (k \div 16) + 1) % Pow2(k % 16)) * Pow2(16 - (k % 16))], Len(a))

\* a * c for 0 <= c < 2^15: the low words of the products plus their high words
MulSmall(a, c) ==
  AddWords(Tuple([i \in 1..Len(a) |-> (a[i] * c) % Base], Len(a)),
           Tuple([i \in 1..Len(a) |-> (Word(a, i - 1) * c) \div Base], Len(a)), 0)

\* a * c for 0 <= c < 2^30, of the width of a
MulWords(a, c) ==
  AddWords(MulSmall(a, c % Pow2(15)), ShiftLeft(MulSmall(a, c \div Pow2(15)), 15), 0)

\* a < b, both unsigned and of one width
NatLt(a, b) ==
  \E i \in 1..Len(a) : a[i] < b[i] /\ \A j \in (i + 1)..Len(a) : a[j] = b[j]

IsZero(a) == \A i \in 1..Len(a) : a[i] = 0

\* the index of the top nonzero word of a, 0 for a = 0
TopWord(a) ==
  IF IsZero(a) THEN 0
  ELSE CHOOSE i \in 1..Len(a) : a[i] # 0 /\ \A j \in (i + 1)..Len(a) : a[j] = 0

\* long division of a by c for 0 < c < 2^27, from the top word down, four bits
\* at a time: div[i, r] is the quotient and remainder of (r, a[i], ..., a[1])
DivMod(a, c) ==
  LET div[i \in 0..Len(a), r \in 0..c] ==
        IF i = 0 THEN [q |-> <<>>, r |-> r]
        ELSE LET cur1 == r * 16 + (a[i] \div 4096)
                 cur2 == (cur1 % c) * 16 + ((a[i] \div 256) % 16)
                 cur3 == (cur2 % c) * 16 + ((a[i] \div 16) % 16)
                 cur4 == (cur3 % c) * 16 + (a[i] % 16)
                 low == div[i - 1, cur4 % c]
             IN [q |-> Append(low.q, (cur1 \div c) * 4096 + (cur2 \div c) * 256
                                       + (cur3 \div c) * 16 + (cur4 \div c)),
                 r |-> low.r]
      res == div[TopWord(a), 0]
  IN [q |-> res.q \o Zeros(Len(a) - Len(res.q)), r |-> res.r]

\* unsigned a \div c and a % c
DivWords(a, c) == DivMod(a, c).q

ModWords(a, c) == DivMod(a, c).r

\* a fits 0 .. 2^31 - 1
FitsNat(a) == a[2] < Pow2(15) /\ \A i \in 3..Len(a) : a[i] = 0

ToNat(a) == a[1] + Base * a[2]

Widen(a, n) == a \o Zeros(n - Len(a))

Narrow(a, n) == SubSeq(a, 1, n)

(***************************************************************************)
(* int64: four words, two's complement                                     *)
(***************************************************************************)
MinInt64 == <<0, 0, 0, 32768>>

MaxInt64 == <<65535, 65535, 65535, 32767>>

\* the int64 of a small integer
I64(v) == IF v >= 0 THEN FromNat(v, 4) ELSE NegWords(FromNat(-v, 4))

IsNeg64(a) == a[4] >= Pow2(15)

Add64(a, b) == AddWords(a, b, 0)

Sub64(a, b) == SubWords(a, b)

Neg64(a) == NegWords(a)

Mul64(a, c) == MulWords(a, c)

\* a < c for an int64 a and a constant 0 <= c < 2^31
Lt64(a, c) == IsNeg64(a) \/ (FitsNat(a) /\ ToNat(a) < c)

\* the order-preserving map of int64 onto 0 .. 2^64 - 1 (used to state gaps)
Biased(a) == [a EXCEPT ![4] = (a[4] + Pow2(15)) % Base]

(***************************************************************************)
(* float64.  A finite float64 >= 0 is [m, e], the number m * 2^e with m an *)
(* integer of at most 53 bits (WideLen words).  Every operation rounds its *)
(* exact result to 53 bits, ties to even, as IEEE 754 does.                *)
(***************************************************************************)
Wide(a) == Widen(a, WideLen)

\* the number of bits of a word w > 0
WordBits(w) == CHOOSE k \in 1..16 : Pow2(k - 1) <= w /\ w < Pow2(k)

\* the number of bits of a
BitLen(a) == IF IsZero(a) THEN 0 ELSE 16 * (TopWord(a) - 1) + WordBits(a[TopWord(a)])

IsOdd(a) == a[1] % 2 = 1

\* the float64 nearest to q * 2^e, or to a number between q and q + 1 times 2^e
\* when sticky (q then has at least 55 bits)
RoundBits(q, e, sticky) ==
  LET t == BitLen(q) - 53
  IN IF t <= 0 THEN [m |-> q, e |-> e]
     ELSE LET hi == ShiftRight(q, t)
              low == SubWords(q, ShiftLeft(hi, t))
              half == ShiftLeft(FromNat(1, WideLen), t - 1)
              up == NatLt(half, low) \/ (low = half /\ (sticky \/ IsOdd(hi)))
          IN [m |-> AddWords(hi, Zeros(Len(hi)), IF up THEN 1 ELSE 0), e |-> e + t]

\* float64(n) for an int64 n >= 0
FloatFromInt(n) == RoundBits(Wide(n), 0, FALSE)

\* the integer m * 2^e of a float64 with e >= 0, or m itself
Mantissa(f) == IF f.e > 0 THEN ShiftLeft(f.m, f.e) ELSE f.m

Exponent(f) == IF f.e > 0 THEN 0 ELSE f.e

\* f / float64(c) for an integer constant 0 < c < 2^26
FloatDiv(f, c) ==
  IF IsZero(f.m) THEN f
  ELSE LET n == Mantissa(f)
           bits == 56 + 27 - BitLen(n)
           s == IF bits > 0 THEN bits ELSE 0
           num == ShiftLeft(n, s)
       IN RoundBits(DivWords(num, c), Exponent(f) - s, ModWords(num, c) # 0)

\* f * float64(c) for an integer constant 0 <= c < 2^23
FloatMul(f, c) == RoundBits(MulWords(f.m, c), f.e, FALSE)

\* f + 0.5
FloatAddHalf(f) ==
  IF f.e < -1
    THEN RoundBits(AddWords(f.m, ShiftLeft(FromNat(1, WideLen), -1 - f.e), 0), f.e, FALSE)
    ELSE RoundBits(AddWords(ShiftLeft(f.m, f.e + 1), FromNat(1, WideLen), 0), -1, FALSE)

\* the integer part of f
FloatTrunc(f) == IF f.e >= 0 THEN ShiftLeft(f.m, f.e) ELSE ShiftRight(f.m, -f.e)

\* f < 2^63
InInt64(f) == BitLen(f.m) + f.e <= 63

\* int64(f).  Go leaves the conversion of a float64 outside the int64 range to
\* the implementation: amd64 gives the least int64, arm64 the greatest.
FloatToInt64(f, arch) ==
  IF InInt64(f) THEN Narrow(FloatTrunc(f), 4)
  ELSE IF arch = "amd64" THEN MinInt64 ELSE MaxInt64

(***************************************************************************)
(* Strings                                                                 *)
(***************************************************************************)
DigitChar == <<"0", "1", "2", "3", "4", "5", "6", "7", "8", "9">>

\* the rune U+017F, LATIN SMALL LETTER LONG S
LongS == "U+017F"

(***************************************************************************)
(* itoa, roundHalfUp                                                       *)
(***************************************************************************)
secondsPerMinute == 60
secondsPerHour == 3600
secondsPerDay == 86400
daysPerMonth == 30
daysPerYear == 365

\* the digit loop of itoa, for n > 0
RECURSIVE itoaLoop(_)
itoaLoop(n) ==
  IF IsZero(n) THEN <<>>
  ELSE Append(itoaLoop(DivWords(n, 10)), DigitChar[ModWords(n, 10) + 1])

RECURSIVE itoa(_)
itoa(n) ==
  IF IsZero(n) THEN <<"0">>
  ELSE IF IsNeg64(n) THEN <<"-">> \o itoa(Neg64(n))
  ELSE itoaLoop(n)

\* int(f + 0.5)
roundHalfUp(f) == FloatToInt64(FloatAddHalf(f), "amd64")

(***************************************************************************)
(* TimeAgo                                                                 *)
(***************************************************************************)
\* 365.0 / 12.0 * float64(secondsPerDay): a constant expression, exactly 2628000
avgMonthSeconds == (daysPerYear * secondsPerDay) \div 12

TimeAgo(timestamp, reference) ==
  LET ref == IF Len(reference) > 0 THEN reference[1] ELSE timestamp
      d0 == Sub64(ref, timestamp)
      future == IsNeg64(d0)
      diff == IF future THEN Neg64(d0) ELSE d0
      one == I64(1)
      nu == CASE Lt64(diff, 90) ->
                   [n |-> one, unit |-> <<"m", "i", "n", "u", "t", "e">>]
              [] ~Lt64(diff, 90) /\ Lt64(diff, 45 * secondsPerMinute) ->
                   [n |-> roundHalfUp(FloatDiv(FloatFromInt(diff), secondsPerMinute)),
                    unit |-> <<"m", "i", "n", "u", "t", "e">>]
              [] ~Lt64(diff, 45 * secondsPerMinute) /\ Lt64(diff, 90 * secondsPerMinute) ->
                   [n |-> one, unit |-> <<"h", "o", "u", "r">>]
              [] ~Lt64(diff, 90 * secondsPerMinute) /\ Lt64(diff, 22 * secondsPerHour) ->
                   [n |-> roundHalfUp(FloatDiv(FloatFromInt(diff), secondsPerHour)), unit |-> <<"h", "o", "u", "r">>]
              [] ~Lt64(diff, 22 * secondsPerHour) /\ Lt64(diff, 36 * secondsPerHour) ->
                   [n |-> one, unit |-> <<"d", "a", "y">>]
              [] ~Lt64(diff, 36 * secondsPerHour) /\ Lt64(diff, 26 * secondsPerDay) ->
                   [n |-> roundHalfUp(FloatDiv(FloatFromInt(diff), secondsPerDay)), unit |-> <<"d", "a", "y">>]
              [] ~Lt64(diff, 26 * secondsPerDay) /\ Lt64(diff, 46 * secondsPerDay) ->
                   [n |-> one, unit |-> <<"m", "o", "n", "t", "h">>]
              [] ~Lt64(diff, 46 * secondsPerDay) /\ Lt64(diff, 320 * secondsPerDay) ->
                   [n |-> roundHalfUp(FloatDiv(FloatFromInt(diff), avgMonthSeconds)),
                    unit |-> <<"m", "o", "n", "t", "h">>]
              [] ~Lt64(diff, 320 * secondsPerDay) /\ Lt64(diff, 548 * secondsPerDay) ->
                   [n |-> one, unit |-> <<"y", "e", "a", "r">>]
              [] OTHER ->
                   [n |-> roundHalfUp(FloatDiv(FloatFromInt(diff), daysPerYear * secondsPerDay)),
                    unit |-> <<"y", "e", "a", "r">>]
      unit == IF nu.n # one THEN nu.unit \o <<"s">> ELSE nu.unit
  IN IF Lt64(diff, 45) THEN <<"j", "u", "s", "t", " ", "n", "o", "w">>
     ELSE IF future THEN <<"i", "n", " ">> \o itoa(nu.n) \o <<" ">> \o unit
     ELSE itoa(nu.n) \o <<" ">> \o unit \o <<" ", "a", "g", "o">>

(***************************************************************************)
(* Errors.  errors.New returns a pointer to a fresh value: two errors are  *)
(* the same error when they are the same allocation.                       *)
(***************************************************************************)
nil == [addr |-> 0, text |-> ""]
ErrNegativeDuration == [addr |-> 1, text |-> "duration cannot be negative"]
\* ErrEmptyInput assigned from another error variable instead of its own errors.New
ErrEmptyInputShared == ErrNegativeDuration
ErrEmptyInput == [addr |-> 2, text |-> "input cannot be empty"]
ErrUnparseable == [addr |-> 3, text |-> "unable to parse duration"]
ErrNegativeValue == [addr |-> 4, text |-> "negative values are not allowed"]

\* errors.Is(err, target): none of the errors wraps another, so it is err == target,
\* the identity of the two allocations
Is(err, target) == err.addr = target.addr

(***************************************************************************)
(* Duration                                                                *)
(***************************************************************************)
WithCompact == [opt |-> "compact"]
WithMaxUnits(n) == [opt |-> "maxUnits", n |-> n]

\* opt(cfg)
ApplyOption(cfg, o) ==
  IF o.opt = "compact" THEN [cfg EXCEPT !.compact = TRUE]
  ELSE [cfg EXCEPT !.maxUnits = o.n]

RECURSIVE ApplyOptions(_, _, _)
ApplyOptions(cfg, opts, i) ==
  IF i > Len(opts) THEN cfg ELSE ApplyOptions(ApplyOption(cfg, opts[i]), opts, i + 1)

secondsPerMonth == 30 * secondsPerDay
secondsPerYear == 365 * secondsPerDay

units ==
  << [seconds |-> secondsPerYear, compact |-> <<"y">>, verbose |-> <<"y", "e", "a", "r">>],
     [seconds |-> secondsPerMonth, compact |-> <<"m", "o">>,
      verbose |-> <<"m", "o", "n", "t", "h">>],
     [seconds |-> secondsPerDay, compact |-> <<"d">>, verbose |-> <<"d", "a", "y">>],
     [seconds |-> secondsPerHour, compact |-> <<"h">>, verbose |-> <<"h", "o", "u", "r">>],
     [seconds |-> secondsPerMinute, compact |-> <<"m">>,
      verbose |-> <<"m", "i", "n", "u", "t", "e">>],
     [seconds |-> 1, compact |-> <<"s">>, verbose |-> <<"s", "e", "c", "o", "n", "d">>] >>

\* the loop over units: the non-zero parts of remaining, from units[i] on
RECURSIVE ExtractParts(_, _)
ExtractParts(remaining, i) ==
  IF i > Len(units) THEN <<>>
  ELSE IF remaining >= units[i].seconds
  THEN <<[value |-> remaining \div units[i].seconds, compact |-> units[i].compact,
          verbose |-> units[i].verbose]>>
         \o ExtractParts(remaining % units[i].seconds, i + 1)
  ELSE ExtractParts(remaining, i + 1)

\* the loop over parts: what parts[i..] add to result
RECURSIVE BuildResult(_, _, _)
BuildResult(parts, cfg, i) ==
  IF i > Len(parts) THEN <<>>
  ELSE (IF i > 1 THEN (IF cfg.compact THEN <<" ">> ELSE <<",", " ">>) ELSE <<>>)
       \o (IF cfg.compact THEN itoa(I64(parts[i].value)) \o parts[i].compact
           ELSE itoa(I64(parts[i].value)) \o <<" ">> \o parts[i].verbose
                \o (IF parts[i].value # 1 THEN <<"s">> ELSE <<>>))
       \o BuildResult(parts, cfg, i + 1)

\* Duration with the limit applied whatever its sign: maxUnits <= 0 keeps nothing
DurationLimitUnchecked(seconds, opts) ==
  IF seconds < 0 THEN [out |-> <<>>, err |-> ErrNegativeDuration]
  ELSE
    LET cfg == ApplyOptions([compact |-> FALSE, maxUnits |-> 2], opts, 1)
        all == ExtractParts(seconds, 1)
        parts == IF Len(all) > cfg.maxUnits
                 THEN SubSeq(all, 1, cfg.maxUnits) ELSE all
    IN IF Len(all) = 0
       THEN [out |-> IF cfg.compact THEN <<"0", "s">>
                     ELSE <<"0", " ", "s", "e", "c", "o", "n", "d", "s">>,
             err |-> nil]
       ELSE [out |-> BuildResult(parts, cfg, 1), err |-> nil]

\* Duration with the sign test off by one: 0 is refused too
DurationZeroRefused(seconds, opts) ==
  IF seconds <= 0 THEN [out |-> <<>>, err |-> ErrNegativeDuration]
  ELSE
    LET cfg == ApplyOptions([compact |-> FALSE, maxUnits |-> 2], opts, 1)
        all == ExtractParts(seconds, 1)
        parts == IF cfg.maxUnits > 0 /\ Len(all) > cfg.maxUnits
                 THEN SubSeq(all, 1, cfg.maxUnits) ELSE all
    IN [out |-> BuildResult(parts, cfg, 1), err |-> nil]

Duration(seconds, opts) ==
  IF seconds < 0 THEN [out |-> <<>>, err |-> ErrNegativeDuration]
  ELSE
    LET cfg == ApplyOptions([compact |-> FALSE, maxUnits |-> 2], opts, 1)
        all == ExtractParts(seconds, 1)
        parts == IF cfg.maxUnits > 0 /\ Len(all) > cfg.maxUnits
                 THEN SubSeq(all, 1, cfg.maxUnits) ELSE all
    IN IF Len(all) = 0
       THEN [out |-> IF cfg.compact THEN <<"0", "s">>
                     ELSE <<"0", " ", "s", "e", "c", "o", "n", "d", "s">>,
             err |-> nil]
       ELSE [out |-> BuildResult(parts, cfg, 1), err |-> nil]

(***************************************************************************)
(* Runes and strings, as the packages strings, strconv and regexp read     *)
(* them                                                                    *)
(***************************************************************************)
KelvinSign == "U+212A"

VTab == "U+000B"

NextLine == "U+0085"

NoBreakSpace == "U+00A0"

\* the White_Space runes below U+0100: what strings.TrimSpace cuts
WhiteSpace == {" ", "\t", "\n", "\f", "\r", VTab, NextLine, NoBreakSpace}

\* \s of the regexp syntax
PerlSpace == {" ", "\t", "\n", "\f", "\r"}

LowerCase ==
  <<"a", "b", "c", "d", "e", "f", "g", "h", "i", "j", "k", "l", "m",
    "n", "o", "p", "q", "r", "s", "t", "u", "v", "w", "x", "y", "z">>

UpperCase ==
  <<"A", "B", "C", "D", "E", "F", "G", "H", "I", "J", "K", "L", "M",
    "N", "O", "P", "Q", "R", "S", "T", "U", "V", "W", "X", "Y", "Z">>

\* \d of the regexp syntax
IsDigit(c) == \E i \in 1..10 : DigitChar[i] = c

DigitVal(c) == (CHOOSE i \in 1..10 : DigitChar[i] = c) - 1

\* unicode.ToLower: the long s is a lower-case letter already
ToLowerRune(c) ==
  IF \E i \in 1..26 : UpperCase[i] = c
    THEN LowerCase[CHOOSE i \in 1..26 : UpperCase[i] = c]
    ELSE IF c = KelvinSign THEN "k" ELSE c

\* strings.ToLower
ToLower(s) == Tuple([i \in 1..Len(s) |-> ToLowerRune(s[i])], Len(s))

\* the rune c matches the pattern's letter p under the flag i, which folds case by
\* Unicode's simple folding: S, s and the long s are one orbit, K, k and the Kelvin
\* sign another
FoldsTo(c, p) ==
  \/ c = p
  \/ \E i \in 1..26 : LowerCase[i] = p /\ UpperCase[i] = c
  \/ p = "s" /\ c = LongS
  \/ p = "k" /\ c = KelvinSign

RECURSIVE TrimLeft(_)
TrimLeft(s) == IF Len(s) > 0 /\ s[1] \in WhiteSpace THEN TrimLeft(Tail(s)) ELSE s

RECURSIVE TrimRight(_)
TrimRight(s) ==
  IF Len(s) > 0 /\ s[Len(s)] \in WhiteSpace THEN TrimRight(SubSeq(s, 1, Len(s) - 1)) ELSE s

\* strings.TrimSpace
TrimSpace(s) == TrimRight(TrimLeft(s))

\* strings.HasPrefix(s, "-")
HasMinusPrefix(s) == Len(s) > 0 /\ s[1] = "-"

\* strings.Contains(s, ".")
ContainsDot(s) == \E i \in 1..Len(s) : s[i] = "."

\* the number the digits s write, in n words (modulo 2^(16 n)), by halves of at most
\* nine digits
RECURSIVE DecimalValue(_, _)
DecimalValue(s, n) ==
  IF Len(s) = 0 THEN Zeros(n)
  ELSE IF Len(s) = 1 THEN FromNat(DigitVal(s[1]), n)
  ELSE LET k == IF Len(s) > 18 THEN 9 ELSE Len(s) \div 2
       IN AddWords(MulWords(DecimalValue(SubSeq(s, 1, Len(s) - k), n), 10^k),
                   DecimalValue(SubSeq(s, Len(s) - k + 1, Len(s)), n), 0)

\* s without its leading zeros
Significant(s) ==
  IF \A i \in 1..Len(s) : s[i] = "0" THEN <<>>
  ELSE SubSeq(s, CHOOSE i \in 1..Len(s) : s[i] # "0" /\ \A j \in 1..(i - 1) : s[j] = "0",
              Len(s))

\* strconv.ParseInt(s, 10, 64) for digits s.  A number above the greatest int64 is
\* a range error, returned with the greatest int64; both callers drop the error.
ParseInt(s) ==
  IF Len(Significant(s)) > 19 THEN MaxInt64
  ELSE IF DecimalValue(Significant(s), 4)[4] >= Pow2(15) THEN MaxInt64
  ELSE DecimalValue(Significant(s), 4)

\* strconv.ParseFloat(s, 64) for s = digits "." digits: the float64 nearest to the
\* decimal (for at most 38 digits, at most 8 of them after the point)
ParseFloat(s) ==
  LET dot == CHOOSE i \in 1..Len(s) : s[i] = "."
  IN FloatDiv([m |-> DecimalValue(SubSeq(s, 1, dot - 1) \o SubSeq(s, dot + 1, Len(s)), WideLen),
               e |-> 0],
              10^(Len(s) - dot))

(***************************************************************************)
(* ParseDuration                                                           *)
(***************************************************************************)
\* the last index of the run of digits that starts at p (p - 1: no digit at p)
DigitsEnd(s, p) ==
  CHOOSE j \in (p - 1)..Len(s) :
    (\A k \in p..j : IsDigit(s[k])) /\ (j = Len(s) \/ ~IsDigit(s[j + 1]))

\* the last index of the run of \s that starts at p (p - 1: none)
SpacesEnd(s, p) ==
  CHOOSE j \in (p - 1)..Len(s) :
    (\A k \in p..j : s[k] \in PerlSpace) /\ (j = Len(s) \/ s[j + 1] \notin PerlSpace)

\* colonPattern.FindStringSubmatch: ^(\d+):(\d{2})(?::(\d{2}))?$ on the whole input
colonPattern(s) ==
  LET h == DigitsEnd(s, 1)
      two(p) == p + 1 <= Len(s) /\ IsDigit(s[p]) /\ IsDigit(s[p + 1])
  IN IF h >= 1 /\ h + 1 <= Len(s) /\ s[h + 1] = ":" /\ two(h + 2) /\ Len(s) = h + 3
       THEN <<SubSeq(s, 1, h), SubSeq(s, h + 2, h + 3), <<>>>>
     ELSE IF h >= 1 /\ h + 1 <= Len(s) /\ s[h + 1] = ":" /\ two(h + 2) /\ Len(s) = h + 6
             /\ s[h + 4] = ":" /\ two(h + 5)
       THEN <<SubSeq(s, 1, h), SubSeq(s, h + 2, h + 3), SubSeq(s, h + 5, h + 6)>>
     ELSE <<>>

parseColonNotation(input) ==
  LET matches == colonPattern(input)
      hours == ParseInt(matches[1])
      minutes == ParseInt(matches[2])
      seconds == IF matches[3] # <<>> THEN ParseInt(matches[3]) ELSE I64(0)
  IN IF matches = <<>> THEN [seconds |-> I64(0), ok |-> FALSE]
     ELSE [seconds |-> Add64(Add64(Mul64(hours, 3600), Mul64(minutes, 60)), seconds),
           ok |-> TRUE]

unitMultipliers ==
  << [unit |-> <<"w">>, seconds |-> 604800],
     [unit |-> <<"w", "e", "e", "k">>, seconds |-> 604800],
     [unit |-> <<"w", "e", "e", "k", "s">>, seconds |-> 604800],
     [unit |-> <<"d">>, seconds |-> 86400],
     [unit |-> <<"d", "a", "y">>, seconds |-> 86400],
     [unit |-> <<"d", "a", "y", "s">>, seconds |-> 86400],
     [unit |-> <<"h">>, seconds |-> 3600],
     [unit |-> <<"h", "r">>, seconds |-> 3600],
     [unit |-> <<"h", "r", "s">>, seconds |-> 3600],
     [unit |-> <<"h", "o", "u", "r">>, seconds |-> 3600],
     [unit |-> <<"h", "o", "u", "r", "s">>, seconds |-> 3600],
     [unit |-> <<"m">>, seconds |-> 60],
     [unit |-> <<"m", "i", "n">>, seconds |-> 60],
     [unit |-> <<"m", "i", "n", "s">>, seconds |-> 60],
     [unit |-> <<"m", "i", "n", "u", "t", "e">>, seconds |-> 60],
     [unit |-> <<"m", "i", "n", "u", "t", "e", "s">>, seconds |-> 60],
     [unit |-> <<"s">>, seconds |-> 1],
     [unit |-> <<"s", "e", "c">>, seconds |-> 1],
     [unit |-> <<"s", "e", "c", "s">>, seconds |-> 1],
     [unit |-> <<"s", "e", "c", "o", "n", "d">>, seconds |-> 1],
     [unit |-> <<"s", "e", "c", "o", "n", "d", "s">>, seconds |-> 1] >>

\* the alternatives of the pattern's second group, in the order the matcher tries
\* them (x? tries x first)
unitAlternatives ==
  << <<"w">>, <<"w", "e", "e", "k", "s">>, <<"w", "e", "e", "k">>,
     <<"d">>, <<"d", "a", "y", "s">>, <<"d", "a", "y">>,
     <<"h">>, <<"h", "r", "s">>, <<"h", "r">>,
     <<"h", "o", "u", "r", "s">>, <<"h", "o", "u", "r">>,
     <<"m">>, <<"m", "i", "n", "s">>, <<"m", "i", "n">>,
     <<"m", "i", "n", "u", "t", "e", "s">>, <<"m", "i", "n", "u", "t", "e">>,
     <<"s">>, <<"s", "e", "c", "s">>, <<"s", "e", "c">>,
     <<"s", "e", "c", "o", "n", "d", "s">>, <<"s", "e", "c", "o", "n", "d">> >>

\* the alternative matches s at p, case folded
AlternativeAt(s, p, alt) ==
  p + Len(alt) - 1 <= Len(s) /\ \A i \in 1..Len(alt) : FoldsTo(s[p + i - 1], alt[i])

\* the length of the first alternative that matches s at p, 0 when none does:
\* the group ends the pattern, so the first alternative that matches is the match
UnitLenAt(s, p) ==
  IF \A k \in 1..Len(unitAlternatives) : ~AlternativeAt(s, p, unitAlternatives[k]) THEN 0
  ELSE Len(unitAlternatives[
         CHOOSE k \in 1..Len(unitAlternatives) :
           AlternativeAt(s, p, unitAlternatives[k])
             /\ \A j \in 1..(k - 1) : ~AlternativeAt(s, p, unitAlternatives[j])])

\* the match of (\d+(?:\.\d+)?)\s*(w|weeks?|...) that starts at the digit s[p].
\* Every repetition is greedy and giving a repetition less never helps: what
\* follows a shortened \d+ is a digit, what follows a skipped fraction is a point.
MatchAt(s, p) ==
  LET intEnd == DigitsEnd(s, p)
      valueEnd == IF intEnd + 2 <= Len(s) /\ s[intEnd + 1] = "." /\ IsDigit(s[intEnd + 2])
                  THEN DigitsEnd(s, intEnd + 2) ELSE intEnd
      unitAt == SpacesEnd(s, valueEnd + 1) + 1
  IN [ok |-> UnitLenAt(s, unitAt) > 0,
      value |-> SubSeq(s, p, valueEnd),
      unit |-> SubSeq(s, unitAt, unitAt + UnitLenAt(s, unitAt) - 1),
      end |-> unitAt + UnitLenAt(s, unitAt) - 1]

\* pattern.FindAllStringSubmatch(s, -1): the leftmost match, then the leftmost
\* match after its end, and so on; find[p] are the matches from p on
FindAllStringSubmatch(s) ==
  LET find[p \in 1..(Len(s) + 1)] ==
        IF \A i \in p..Len(s) : ~IsDigit(s[i]) THEN <<>>
        ELSE LET d == CHOOSE i \in p..Len(s) : IsDigit(s[i]) /\ \A j \in p..(i - 1) : ~IsDigit(s[j])
             IN IF MatchAt(s, d).ok THEN <<MatchAt(s, d)>> \o find[MatchAt(s, d).end + 1]
                ELSE find[d + 1]
  IN find[1]

\* one turn of the loop over matches: what the match adds to total
TermSeconds(match, arch) ==
  LET unit == ToLower(match.unit)
      known == {i \in 1..Len(unitMultipliers) : unitMultipliers[i].unit = unit}
      multiplier == unitMultipliers[CHOOSE i \in known : TRUE].seconds
  IN IF known = {} THEN I64(0)
     ELSE IF ContainsDot(match.value)
       THEN FloatToInt64(FloatMul(ParseFloat(match.value), multiplier), arch)
     ELSE Mul64(ParseInt(match.value), multiplier)

RECURSIVE SumTerms(_, _, _)
SumTerms(matches, arch, n) ==
  IF n = 0 THEN I64(0)
  ELSE Add64(SumTerms(matches, arch, n - 1), TermSeconds(matches[n], arch))

parseUnitValuePairs(input, arch) ==
  LET matches == FindAllStringSubmatch(input)
  IN IF Len(matches) = 0 THEN [seconds |-> I64(0), found |-> FALSE]
     ELSE [seconds |-> SumTerms(matches, arch, Len(matches)), found |-> TRUE]

\* ParseDuration without the TrimSpace
ParseDurationUntrimmed(input, arch) ==
  IF input = <<>> THEN [seconds |-> I64(0), err |-> ErrEmptyInput]
  ELSE IF HasMinusPrefix(input) THEN [seconds |-> I64(0), err |-> ErrNegativeValue]
  ELSE IF parseColonNotation(input).ok
    THEN [seconds |-> parseColonNotation(input).seconds, err |-> nil]
  ELSE IF ~parseUnitValuePairs(input, arch).found
    THEN [seconds |-> I64(0), err |-> ErrUnparseable]
  ELSE [seconds |-> parseUnitValuePairs(input, arch).seconds, err |-> nil]

\* arch is the architecture of the build, which decides int64(x) for x out of range
ParseDuration(input, arch) ==
  LET trimmed == TrimSpace(input)
  IN IF trimmed = <<>> THEN [seconds |-> I64(0), err |-> ErrEmptyInput]
     ELSE IF HasMinusPrefix(trimmed) THEN [seconds |-> I64(0), err |-> ErrNegativeValue]
     ELSE IF parseColonNotation(trimmed).ok
       THEN [seconds |-> parseColonNotation(trimmed).seconds, err |-> nil]
     ELSE IF ~parseUnitValuePairs(trimmed, arch).found
       THEN [seconds |-> I64(0), err |-> ErrUnparseable]
     ELSE [seconds |-> parseUnitValuePairs(trimmed, arch).seconds, err |-> nil]

(***************************************************************************)
(* HumanDate and DateRange.  Instants are plain integers: the calendar of  *)
(* package time is exact on every int64 the model draws (1901 to 2038),    *)
(* and the difference of two of their midnights is far from the 292 years  *)
(* at which Time.Sub saturates.                                            *)
(***************************************************************************)
daysPer400Years == 365 * 400 + 97

daysPer100Years == 365 * 100 + 24

daysPer4Years == 365 * 4 + 1

\* the days before 1 January of the year, counted from 1 January of year 1
daysSinceYear1(year) ==
  365 * (year - 1) + ((year - 1) \div 4) - ((year - 1) \div 100) + ((year - 1) \div 400)

\* 1 January 1970
unixEpochDays == daysSinceYear1(1970)

\* the days before the first of each month of a common year
daysBefore == <<0, 31, 59, 90, 120, 151, 181, 212, 243, 273, 304, 334, 365>>

isLeap(year) == year % 4 = 0 /\ (year % 100 # 0 \/ year % 400 = 0)

longDayNames ==
  << <<"S", "u", "n", "d", "a", "y">>, <<"M", "o", "n", "d", "a", "y">>,
     <<"T", "u", "e", "s", "d", "a", "y">>, <<"W", "e", "d", "n", "e", "s", "d", "a", "y">>,
     <<"T", "h", "u", "r", "s", "d", "a", "y">>, <<"F", "r", "i", "d", "a", "y">>,
     <<"S", "a", "t", "u", "r", "d", "a", "y">> >>

longMonthNames ==
  << <<"J", "a", "n", "u", "a", "r", "y">>, <<"F", "e", "b", "r", "u", "a", "r", "y">>,
     <<"M", "a", "r", "c", "h">>, <<"A", "p", "r", "i", "l">>, <<"M", "a", "y">>,
     <<"J", "u", "n", "e">>, <<"J", "u", "l", "y">>, <<"A", "u", "g", "u", "s", "t">>,
     <<"S", "e", "p", "t", "e", "m", "b", "e", "r">>, <<"O", "c", "t", "o", "b", "e", "r">>,
     <<"N", "o", "v", "e", "m", "b", "e", "r">>, <<"D", "e", "c", "e", "m", "b", "e", "r">> >>

\* year and day of the year (from 0) of a day counted from 1 January of year 1:
\* cycles of 400, 100, 4 and 1 years; the last year of a cycle has the extra day
absDate(days) ==
  LET n400 == days \div daysPer400Years
      d1 == days - daysPer400Years * n400
      n100 == (d1 \div daysPer100Years) - ((d1 \div daysPer100Years) \div 4)
      d2 == d1 - daysPer100Years * n100
      n4 == d2 \div daysPer4Years
      d3 == d2 - daysPer4Years * n4
      n1 == (d3 \div 365) - ((d3 \div 365) \div 4)
  IN [year |-> 400 * n400 + 100 * n100 + 4 * n4 + n1 + 1, yday |-> d3 - 365 * n1]

\* month (1..12) and day of the month of the day yday of the year
monthDay(year, yday) ==
  LET day == IF isLeap(year) /\ yday > 31 + 29 - 1 THEN yday - 1 ELSE yday
      guess == day \div 31
      month == IF day >= daysBefore[guess + 2] THEN guess + 2 ELSE guess + 1
  IN IF isLeap(year) /\ yday = 31 + 29 - 1 THEN [month |-> 2, day |-> 29]
     ELSE [month |-> month, day |-> day - daysBefore[month] + 1]

\* time.Unix(sec, 0).UTC(), with what Year, Month, Day and Weekday return
Unix(sec) ==
  LET days == (sec \div secondsPerDay) + unixEpochDays
      yd == absDate(days)
      md == monthDay(yd.year, yd.yday)
  IN [year |-> yd.year, month |-> md.month, day |-> md.day, weekday |-> (days + 1) % 7]

\* time.Date(year, month, day, 0, 0, 0, 0, time.UTC), as Unix seconds
Date(year, month, day) ==
  (daysSinceYear1(year) + daysBefore[month]
     + (IF isLeap(year) /\ month >= 3 THEN 1 ELSE 0) + (day - 1) - unixEpochDays)
    * secondsPerDay

\* t.Format("January 2")
FormatMonthDay(t) == longMonthNames[t.month] \o <<" ">> \o itoa(I64(t.day))

\* t.Format("January 2, 2006"), for a year of four digits
FormatMonthDayYear(t) == FormatMonthDay(t) \o <<",", " ">> \o itoa(I64(t.year))

\* HumanDate with the days counted between the instants, not between their midnights
HumanDateOfInstants(timestamp, reference) ==
  LET ref == IF Len(reference) > 0 THEN reference[1] ELSE timestamp
      tsTime == Unix(timestamp)
      refTime == Unix(ref)
      dayDiff == ((timestamp - ref) \div secondsPerHour) \div 24
  IN CASE dayDiff = 0 -> <<"T", "o", "d", "a", "y">>
       [] dayDiff = -1 -> <<"Y", "e", "s", "t", "e", "r", "d", "a", "y">>
       [] dayDiff = 1 -> <<"T", "o", "m", "o", "r", "r", "o", "w">>
       [] dayDiff >= -6 /\ dayDiff <= -2 ->
            <<"L", "a", "s", "t", " ">> \o longDayNames[tsTime.weekday + 1]
       [] dayDiff >= 2 /\ dayDiff <= 6 ->
            <<"T", "h", "i", "s", " ">> \o longDayNames[tsTime.weekday + 1]
       [] OTHER -> IF tsTime.year = refTime.year THEN FormatMonthDay(tsTime)
                   ELSE FormatMonthDayYear(tsTime)

HumanDate(timestamp, reference) ==
  LET ref == IF Len(reference) > 0 THEN reference[1] ELSE timestamp
      tsTime == Unix(timestamp)
      refTime == Unix(ref)
      tsDay == Date(tsTime.year, tsTime.month, tsTime.day)
      refDay == Date(refTime.year, refTime.month, refTime.day)
      dayDiff == ((tsDay - refDay) \div secondsPerHour) \div 24
  IN CASE dayDiff = 0 -> <<"T", "o", "d", "a", "y">>
       [] dayDiff = -1 -> <<"Y", "e", "s", "t", "e", "r", "d", "a", "y">>
       [] dayDiff = 1 -> <<"T", "o", "m", "o", "r", "r", "o", "w">>
       [] dayDiff >= -6 /\ dayDiff <= -2 ->
            <<"L", "a", "s", "t", " ">> \o longDayNames[tsTime.weekday + 1]
       [] dayDiff >= 2 /\ dayDiff <= 6 ->
            <<"T", "h", "i", "s", " ">> \o longDayNames[tsTime.weekday + 1]
       [] OTHER -> IF tsTime.year = refTime.year THEN FormatMonthDay(tsTime)
                   ELSE FormatMonthDayYear(tsTime)

\* the function is not written yet: it returns "" whatever it is given
DateRange(start, end) == <<>>

(***************************************************************************)
(* The calls                                                               *)
(***************************************************************************)
VARIABLES pc, args, ret

vars == <<pc, args, ret>>

Init == pc = "idle" /\ args = <<>> /\ ret = <<>>

\* the edges of TimeAgo's switch
BucketEdges ==
  {45, 90, 45 * secondsPerMinute, 90 * secondsPerMinute, 22 * secondsPerHour,
   36 * secondsPerHour, 26 * secondsPerDay, 46 * secondsPerDay, 320 * secondsPerDay,
   548 * secondsPerDay}

\* the gaps k + 1/2 units, where half-up rounding decides
TieGaps ==
  {k * c + c \div 2 :
     k \in 1..MaxCount,
     c \in {secondsPerMinute, secondsPerHour, secondsPerDay, avgMonthSeconds,
            daysPerYear * secondsPerDay}}

GapSamples ==
  {g + d : g \in {0} \cup BucketEdges \cup TieGaps, d \in -MaxDelta..MaxDelta} \cap Nat

\* instants at the ends and in the middle of the int64 range
ExtremeInstants ==
  {Add64(MinInt64, I64(a)) : a \in 0..MaxDelta}
    \cup {Sub64(MaxInt64, I64(a)) : a \in 0..MaxDelta}
    \cup {I64(a) : a \in -MaxDelta..MaxDelta}

TimeAgoInputs ==
  {<<t, <<Add64(t, I64(g))>>>> : t \in {I64(0), I64(-86400), MaxInt64}, g \in {-x : x \in GapSamples}}
    \cup {<<t, <<Add64(t, I64(g))>>>> : t \in {I64(0), I64(-86400), MinInt64}, g \in GapSamples}
    \cup {<<t, <<r>>>> : t \in ExtremeInstants, r \in ExtremeInstants}
    \cup {<<MaxInt64, <<Add64(MaxInt64, I64(g))>>>> : g \in GapSamples}
    \cup {<<t, <<>>>> : t \in ExtremeInstants}
    \cup {<<t, <<r, t>>>> : t \in {I64(0)}, r \in {I64(60), I64(-3600)}}

CallTimeAgo ==
  /\ pc = "idle"
  /\ \E in \in TimeAgoInputs :
       /\ args' = [timestamp |-> in[1], reference |-> in[2]]
       /\ ret' = [out |-> TimeAgo(in[1], in[2])]
  /\ pc' = "TimeAgo"

RECURSIVE UnitSums(_)
\* the durations with 0..MaxUnitCount of each of units[i..]
UnitSums(i) ==
  IF i > Len(units) THEN {0}
  ELSE {k * units[i].seconds + rest : k \in 0..MaxUnitCount, rest \in UnitSums(i + 1)}

DurationSeconds ==
  UnitSums(1)
    \cup {k * units[i].seconds + d : i \in 1..Len(units), k \in 1..(MaxUnitCount + 1), d \in -1..1}
    \cup {-1, -secondsPerMinute, -secondsPerYear}

OptionLists ==
  {<<>>, <<WithCompact>>, <<WithMaxUnits(1), WithMaxUnits(3)>>, <<WithMaxUnits(2), WithCompact>>}
    \cup {<<WithMaxUnits(n)>> : n \in -1..MaxUnitsOpt}
    \cup {<<WithCompact, WithMaxUnits(n)>> : n \in -1..MaxUnitsOpt}

CallDuration ==
  /\ pc = "idle"
  /\ \E seconds \in DurationSeconds, opts \in OptionLists :
       /\ args' = [seconds |-> seconds, opts |-> opts]
       /\ ret' = Duration(seconds, opts)
  /\ pc' = "Duration"

\* the pieces ParseDuration's inputs are put together from
InputTokens ==
  {<<"1">>, <<"0", "5">>, <<":", "0", "5">>, <<".", "5">>, <<":">>, <<".">>, <<" ">>,
   <<"-">>, <<"h">>, <<"m">>}

\* the strings of at most n pieces
RECURSIVE TokenStrings(_)
TokenStrings(n) ==
  IF n = 0 THEN {<<>>}
  ELSE {s \o t : s \in TokenStrings(n - 1), t \in InputTokens \cup {<<>>}}

\* strings.ToUpper, for the inputs
ToUpper(s) ==
  Tuple([i \in 1..Len(s) |-> UpperCase[CHOOSE k \in 1..26 : LowerCase[k] = s[i]]], Len(s))

\* every unit word of unitMultipliers after a number, in both cases, with and
\* without a space
UnitWordInputs ==
  {<<"2">> \o sp \o w : sp \in {<<>>, <<" ">>},
                       w \in {unitMultipliers[i].unit : i \in 1..Len(unitMultipliers)}
                               \cup {ToUpper(unitMultipliers[i].unit) : i \in 1..Len(unitMultipliers)}}

\* the digits of 2^63 - 1, of 2^63 \div 3600 + 1 and of 2^63 \div 604800 + 1
MaxInt64Digits ==
  <<"9", "2", "2", "3", "3", "7", "2", "0", "3", "6", "8", "5", "4", "7", "7", "5", "8", "0", "7">>

HoursOverflowDigits ==
  <<"2", "5", "6", "2", "0", "4", "7", "7", "8", "8", "0", "1", "5", "2", "1", "6">>

WeeksOverflowDigits ==
  <<"1", "5", "2", "5", "0", "2", "8", "4", "4", "5", "2", "4", "7", "2">>

\* twenty nines: more than any int64
TwentyNines == Tuple([i \in 1..20 |-> "9"], 20)

SpecialInputs ==
  { <<NoBreakSpace, " ", VTab>>, <<"\t", "1", "h", "\n">>, <<NextLine, "-", "1", "h">>,
    <<"1", "h", VTab, "2", "m">>, <<"1", "\t", "\n", "h">>, <<"1", NoBreakSpace, "h">>,
    <<"5", LongS>>, <<"5", " ", LongS, " ", "2", "h">>, <<"5", "h", LongS>>,
    <<"5", " ", KelvinSign>>, <<"5", "x">>, <<"x", "5", "h">>, <<"5", "m", "s">>,
    <<"4", ".", "1", "m">>, <<"0", ".", "9", "9", "9", "9", "s">>, <<"1", ".", "5", ".", "5", "h">>,
    <<"1", ".", "9", "9", "9", "w">>, <<"2", "h", "3", "0", "m">>, <<"2", "h", " ", "1", ":", "0", "5">>,
    <<"1", ":", "0", "5", ":", "0", "9">>, <<"1", ":", "9", "9", ":", "9", "9">>,
    <<"1", ":", "0", "5", "h">>, <<"0", "0", "7", ":", "0", "8">>, <<"1", ":", "5", ":", "0", "5">>,
    <<"1", " ", "m", "o", "n", "t", "h">>, <<"1", "m", "o">>, <<"1", " ", "y", "e", "a", "r">>,
    <<"1", "y">>, <<"1", "y", " ", "2", "d">>,
    MaxInt64Digits \o <<"s">>, MaxInt64Digits \o <<"s", " ", "1", "s">>,
    MaxInt64Digits \o <<".", "0", "s">>, MaxInt64Digits \o <<":", "0", "0">>,
    <<"0", "0">> \o MaxInt64Digits \o <<"s">>,
    TwentyNines \o <<"s">>, TwentyNines \o <<":", "0", "0">>, TwentyNines \o <<".", "5", "w">>,
    HoursOverflowDigits \o <<":", "0", "0">>, HoursOverflowDigits \o <<"h">>,
    WeeksOverflowDigits \o <<"w">>, WeeksOverflowDigits \o <<" ", "w", "e", "e", "k", "s">> }

ParseDurationInputs == TokenStrings(MaxTokens) \cup UnitWordInputs \cup SpecialInputs

CallParseDuration ==
  /\ pc = "idle"
  /\ \E input \in ParseDurationInputs, arch \in {"amd64", "arm64"} :
       /\ args' = [input |-> input, arch |-> arch]
       /\ ret' = ParseDuration(input, arch)
  /\ pc' = "ParseDuration"

\* the days (from 1 January 1970) around which instants are taken: 1 January 1970,
\* 29 February 2000, 1 March 2023, 31 December 2023 and 29 February 2024
AnchorDays == {0, 11016, 19417, 19722, 19782}

\* days apart: every day up to MaxDayShift, then months and years
DayShifts ==
  {k : k \in -MaxDayShift..MaxDayShift}
    \cup {31 * k : k \in -MaxDayShift..MaxDayShift}
    \cup {366 * k : k \in -1..1}

\* the first, a middle and the last second of a day
SecondsOfDay == {0, 12 * secondsPerHour + 1, secondsPerDay - 1}

DateInputs ==
  {<<(a + k) * secondsPerDay + s, <<a * secondsPerDay + s2>>>> :
     a \in AnchorDays, k \in DayShifts, s \in SecondsOfDay, s2 \in {0, secondsPerDay - 1}}

CallHumanDate ==
  /\ pc = "idle"
  /\ \E in \in DateInputs \cup {<<in2[1], <<>>>> : in2 \in DateInputs} :
       /\ args' = [timestamp |-> in[1], reference |-> in[2]]
       /\ ret' = [out |-> HumanDate(in[1], in[2])]
  /\ pc' = "HumanDate"

CallDateRange ==
  /\ pc = "idle"
  /\ \E in \in DateInputs, swap \in BOOLEAN :
       /\ args' = IF swap THEN [start |-> in[2][1], end |-> in[1]]
                  ELSE [start |-> in[1], end |-> in[2][1]]
       /\ ret' = [out |-> DateRange(args'.start, args'.end)]
  /\ pc' = "DateRange"

Next ==
  CallTimeAgo \/ CallDuration \/ CallParseDuration \/ CallHumanDate \/ CallDateRange

Spec == Init /\ [][Next]_vars

SpecTimeAgo == Init /\ [][CallTimeAgo]_vars

SpecDuration == Init /\ [][CallDuration]_vars

SpecParse == Init /\ [][CallParseDuration]_vars

SpecHumanDate == Init /\ [][CallHumanDate]_vars

SpecDateRange == Init /\ [][CallDateRange]_vars

\* the two functions that return an error
SpecErrors == Init /\ [][CallDuration \/ CallParseDuration]_vars

(***************************************************************************)
(* C1.  TimeAgo and the bucket table                                       *)
(***************************************************************************)
\* |r - t| as an unsigned 64-bit number, and whether r > t
TrueGap(t, r) ==
  IF NatLt(Biased(t), Biased(r)) THEN SubWords(Biased(r), Biased(t))
  ELSE SubWords(Biased(t), Biased(r))

IsPast(t, r) == NatLt(Biased(t), Biased(r))

GapBelow(gap, c) == FitsNat(gap) /\ ToNat(gap) < c

\* round(gap / c), half up, as (2 gap + c) \div 2c
RoundedCount(gap, c) ==
  Narrow(DivWords(AddWords(MulWords(Widen(gap, WideLen), 2), FromNat(c, WideLen), 0), 2 * c), 4)

BucketOf(gap) ==
  CASE GapBelow(gap, 90) -> [n |-> I64(1), unit |-> <<"m", "i", "n", "u", "t", "e">>]
    [] ~GapBelow(gap, 90) /\ GapBelow(gap, 2700) ->
         [n |-> RoundedCount(gap, 60), unit |-> <<"m", "i", "n", "u", "t", "e">>]
    [] ~GapBelow(gap, 2700) /\ GapBelow(gap, 5400) ->
         [n |-> I64(1), unit |-> <<"h", "o", "u", "r">>]
    [] ~GapBelow(gap, 5400) /\ GapBelow(gap, 79200) ->
         [n |-> RoundedCount(gap, 3600), unit |-> <<"h", "o", "u", "r">>]
    [] ~GapBelow(gap, 79200) /\ GapBelow(gap, 129600) ->
         [n |-> I64(1), unit |-> <<"d", "a", "y">>]
    [] ~GapBelow(gap, 129600) /\ GapBelow(gap, 2246400) ->
         [n |-> RoundedCount(gap, 86400), unit |-> <<"d", "a", "y">>]
    [] ~GapBelow(gap, 2246400) /\ GapBelow(gap, 3974400) ->
         [n |-> I64(1), unit |-> <<"m", "o", "n", "t", "h">>]
    [] ~GapBelow(gap, 3974400) /\ GapBelow(gap, 27648000) ->
         [n |-> RoundedCount(gap, 2628000), unit |-> <<"m", "o", "n", "t", "h">>]
    [] ~GapBelow(gap, 27648000) /\ GapBelow(gap, 47347200) ->
         [n |-> I64(1), unit |-> <<"y", "e", "a", "r">>]
    [] OTHER -> [n |-> RoundedCount(gap, 31536000), unit |-> <<"y", "e", "a", "r">>]

BucketPhrase(gap, past) ==
  LET b == BucketOf(gap)
      words == itoa(b.n) \o <<" ">> \o b.unit \o (IF b.n # I64(1) THEN <<"s">> ELSE <<>>)
  IN IF GapBelow(gap, 45) THEN <<"j", "u", "s", "t", " ", "n", "o", "w">>
     ELSE IF past THEN words \o <<" ", "a", "g", "o">>
     ELSE <<"i", "n", " ">> \o words

\* C1: for every instant t and reference r, TimeAgo(t, r) is the phrase the bucket
\* table gives for gap = |r - t| ("... ago" when r > t, "in ..." when r < t, "just
\* now" below 45 in both directions), and TimeAgo(t) is "just now".
C1_TimeAgoBuckets ==
  pc = "TimeAgo" =>
    ret.out = IF args.reference = <<>> THEN <<"j", "u", "s", "t", " ", "n", "o", "w">>
              ELSE BucketPhrase(TrueGap(args.timestamp, args.reference[1]),
                                IsPast(args.timestamp, args.reference[1]))

\* What does hold: the bucket table, for the calls whose difference r - t is
\* itself an int64 (|r - t| < 2^63).
TimeAgoBucketsInRange ==
  pc = "TimeAgo" /\ args.reference # <<>>
     /\ TrueGap(args.timestamp, args.reference[1])[4] < Pow2(15)
  => ret.out = BucketPhrase(TrueGap(args.timestamp, args.reference[1]),
                            IsPast(args.timestamp, args.reference[1]))

(***************************************************************************)
(* C2, C3, C5.  Duration                                                   *)
(***************************************************************************)
\* the unit table as the specification words it: year (365 days), month (30 days),
\* day, hour, minute, second
TableSeconds == <<365 * 86400, 30 * 86400, 86400, 3600, 60, 1>>

TableSuffix == << <<"y">>, <<"m", "o">>, <<"d">>, <<"h">>, <<"m">>, <<"s">> >>

TableName ==
  << <<"y", "e", "a", "r">>, <<"m", "o", "n", "t", "h">>, <<"d", "a", "y">>,
     <<"h", "o", "u", "r">>, <<"m", "i", "n", "u", "t", "e">>,
     <<"s", "e", "c", "o", "n", "d">> >>

\* n >= 0 in decimal
RECURSIVE DecimalText(_)
DecimalText(n) ==
  IF n < 10 THEN <<DigitChar[n + 1]>>
  ELSE DecimalText(n \div 10) \o <<DigitChar[(n % 10) + 1]>>

\* what the larger units leave of s for unit i, and the count of unit i
RECURSIVE LeftFor(_, _)
LeftFor(s, i) == IF i = 1 THEN s ELSE LeftFor(s, i - 1) % TableSeconds[i - 1]

CountOf(s, i) == LeftFor(s, i) \div TableSeconds[i]

NonZeroUnits(s) == {i \in 1..6 : CountOf(s, i) > 0}

\* the first maxUnits of the non-zero units; all of them when maxUnits <= 0
KeptUnits(s, maxUnits) ==
  IF maxUnits <= 0 THEN NonZeroUnits(s)
  ELSE {i \in NonZeroUnits(s) : Cardinality({j \in NonZeroUnits(s) : j <= i}) <= maxUnits}

WantsCompact(opts) == \E i \in 1..Len(opts) : opts[i].opt = "compact"

\* the last limit given, 2 when none is
WantedMaxUnits(opts) ==
  LET given == {i \in 1..Len(opts) : opts[i].opt = "maxUnits"}
  IN IF given = {} THEN 2 ELSE opts[CHOOSE i \in given : \A j \in given : j <= i].n

RenderUnit(s, i, compact) ==
  IF compact THEN DecimalText(CountOf(s, i)) \o TableSuffix[i]
  ELSE DecimalText(CountOf(s, i)) \o <<" ">> \o TableName[i]
       \o (IF CountOf(s, i) # 1 THEN <<"s">> ELSE <<>>)

\* the units of kept from i on, in the table's order, with the separator before
\* every unit but the first
RECURSIVE JoinUnits(_, _, _, _)
JoinUnits(s, kept, compact, i) ==
  IF i > 6 THEN <<>>
  ELSE IF i \notin kept THEN JoinUnits(s, kept, compact, i + 1)
  ELSE (IF \A j \in kept : j >= i THEN <<>> ELSE IF compact THEN <<" ">> ELSE <<",", " ">>)
       \o RenderUnit(s, i, compact) \o JoinUnits(s, kept, compact, i + 1)

ExpectedDuration(s, opts) ==
  IF s = 0
    THEN IF WantsCompact(opts) THEN <<"0", "s">>
         ELSE <<"0", " ", "s", "e", "c", "o", "n", "d", "s">>
  ELSE JoinUnits(s, KeptUnits(s, WantedMaxUnits(opts)), WantsCompact(opts), 1)

SmallestEmitted(s, opts) ==
  IF s = 0 THEN 1
  ELSE TableSeconds[CHOOSE i \in KeptUnits(s, WantedMaxUnits(opts)) :
                      \A j \in KeptUnits(s, WantedMaxUnits(opts)) : j <= i]

LargestEmitted(s) ==
  IF s = 0 THEN 1
  ELSE TableSeconds[CHOOSE i \in NonZeroUnits(s) : \A j \in NonZeroUnits(s) : i <= j]

\* ParseDuration gives back s, but for what Duration dropped
ParsesBackTo(text, s, opts) ==
  \A arch \in {"amd64", "arm64"} :
    LET back == ParseDuration(text, arch)
    IN /\ back.err = nil
       /\ FitsNat(back.seconds)
       /\ ToNat(back.seconds) - s < SmallestEmitted(s, opts)
       /\ s - ToNat(back.seconds) < SmallestEmitted(s, opts)
       /\ (s % LargestEmitted(s) = 0 => ToNat(back.seconds) = s)

\* C3: for every s >= 0, verbose or compact, ParseDuration(Duration(s)) succeeds with
\* a value less than the smallest unit written away from s, and with s itself when s
\* is a multiple of the largest unit written; months and years included.
C3_RoundTrip ==
  pc = "Duration" /\ args.seconds >= 0 => ParsesBackTo(ret.out, args.seconds, args.opts)

\* What does hold: the same below 30 days, where Duration writes neither month nor
\* year.
RoundTripBelowMonth ==
  pc = "Duration" /\ args.seconds >= 0 /\ args.seconds < 30 * 86400
    => ParsesBackTo(ret.out, args.seconds, args.opts)

TrimmedInput(s) ==
  LET keep == {i \in 1..Len(s) : s[i] \notin WhiteSpace}
  IN IF keep = {} THEN <<>>
     ELSE SubSeq(s, CHOOSE i \in keep : \A j \in keep : i <= j,
                    CHOOSE i \in keep : \A j \in keep : j <= i)

AllDigits(s, from, to) == from <= to /\ to <= Len(s) /\ \A k \in from..to : IsDigit(s[k])

\* the whole of s is hours:minutes or hours:minutes:seconds, the hours h digits long
ColonFormWith(s, h) ==
  /\ AllDigits(s, 1, h)
  /\ h + 3 <= Len(s)
  /\ s[h + 1] = ":"
  /\ AllDigits(s, h + 2, h + 3)
  /\ \/ Len(s) = h + 3
     \/ Len(s) = h + 6 /\ s[h + 4] = ":" /\ AllDigits(s, h + 5, h + 6)

IsColonForm(s) == \E h \in 1..Len(s) : ColonFormWith(s, h)

\* hours * 3600 + minutes * 60 + seconds of a colon form, as a number of 128 bits
ColonValue(s) ==
  LET h == CHOOSE k \in 1..Len(s) : ColonFormWith(s, k)
      minutes == 10 * DigitVal(s[h + 2]) + DigitVal(s[h + 3])
      seconds == IF Len(s) = h + 6 THEN 10 * DigitVal(s[h + 5]) + DigitVal(s[h + 6]) ELSE 0
  IN AddWords(MulWords(DecimalValue(SubSeq(s, 1, h), WideLen), 3600),
              FromNat(minutes * 60 + seconds, WideLen), 0)

\* the unit words and their seconds
TermWords ==
  {[word |-> w, seconds |-> 604800] :
     w \in {<<"w">>, <<"w", "e", "e", "k">>, <<"w", "e", "e", "k", "s">>}}
  \cup {[word |-> w, seconds |-> 86400] :
          w \in {<<"d">>, <<"d", "a", "y">>, <<"d", "a", "y", "s">>}}
  \cup {[word |-> w, seconds |-> 3600] :
          w \in {<<"h">>, <<"h", "r">>, <<"h", "r", "s">>, <<"h", "o", "u", "r">>,
                 <<"h", "o", "u", "r", "s">>}}
  \cup {[word |-> w, seconds |-> 60] :
          w \in {<<"m">>, <<"m", "i", "n">>, <<"m", "i", "n", "s">>,
                 <<"m", "i", "n", "u", "t", "e">>, <<"m", "i", "n", "u", "t", "e", "s">>}}
  \cup {[word |-> w, seconds |-> 1] :
          w \in {<<"s">>, <<"s", "e", "c">>, <<"s", "e", "c", "s">>,
                 <<"s", "e", "c", "o", "n", "d">>, <<"s", "e", "c", "o", "n", "d", "s">>}}

\* the unit words that stand in s at p, letters compared without case (by Unicode's
\* simple case folding, as strings.EqualFold compares)
WordsAt(s, p) ==
  {w \in TermWords :
     p + Len(w.word) - 1 <= Len(s) /\ \A i \in 1..Len(w.word) : FoldsTo(s[p + i - 1], w.word[i])}

\* the term that starts with the digit s[p]: digits, perhaps a point and digits, any
\* white space, and the longest unit word that follows
TermAt(s, p) ==
  LET whole == DigitsEnd(s, p)
      last == IF whole + 2 <= Len(s) /\ s[whole + 1] = "." /\ IsDigit(s[whole + 2])
              THEN DigitsEnd(s, whole + 2) ELSE whole
      at == SpacesEnd(s, last + 1) + 1
      w == CHOOSE w \in WordsAt(s, at) : \A v \in WordsAt(s, at) : Len(v.word) <= Len(w.word)
  IN IF WordsAt(s, at) = {} THEN [ok |-> FALSE]
     ELSE [ok |-> TRUE, number |-> SubSeq(s, p, last), seconds |-> w.seconds,
           end |-> at + Len(w.word) - 1]

ContainsTerm(s) == \E p \in 1..Len(s) : IsDigit(s[p]) /\ TermAt(s, p).ok

\* value * multiplier of a term, as a number of 128 bits: exact for a whole value,
\* the float64 product cut to an integer for a fractional one
TermValue(term) ==
  IF ContainsDot(term.number)
    THEN FloatTrunc(FloatMul(ParseFloat(term.number), term.seconds))
  ELSE MulWords(DecimalValue(term.number, WideLen), term.seconds)

\* the sum over the terms of s, read from left to right
TermSum(s) ==
  LET sum[p \in 1..(Len(s) + 1)] ==
        IF p > Len(s) THEN Zeros(WideLen)
        ELSE IF IsDigit(s[p]) /\ TermAt(s, p).ok
          THEN AddWords(TermValue(TermAt(s, p)), sum[TermAt(s, p).end + 1], 0)
        ELSE sum[p + 1]
  IN sum[1]

\* the int64 a is the number w of 128 bits
IsNumber(a, w) == ~IsNeg64(a) /\ Widen(a, WideLen) = w

\* C4: on the trimmed input, ParseDuration fails with ErrEmptyInput exactly when it is
\* empty; otherwise with ErrNegativeValue exactly when it begins with "-"; otherwise
\* with ErrUnparseable exactly when it is neither a colon form nor contains a
\* number-unit term; a failure returns 0 seconds, and every other input no error.
C4_FailureOrder ==
  pc = "ParseDuration" =>
    LET s == TrimmedInput(args.input)
    IN /\ (ret.err = ErrEmptyInput) <=> (s = <<>>)
       /\ (ret.err = ErrNegativeValue) <=> (s # <<>> /\ s[1] = "-")
       /\ (ret.err = ErrUnparseable)
            <=> (s # <<>> /\ s[1] # "-" /\ ~IsColonForm(s) /\ ~ContainsTerm(s))
       /\ ret.err \in {nil, ErrEmptyInput, ErrNegativeValue, ErrUnparseable}
       /\ ret.err # nil => ret.seconds = I64(0)

\* a "-" behind white space that only TrimSpace knows, refused before its term is read
C4_Witness ==
  /\ pc = "ParseDuration"
  /\ args.input = <<NextLine, "-", "1", "h">>
  /\ ret = [seconds |-> I64(0), err |-> ErrNegativeValue]

\* C6: whenever ParseDuration returns no error, the seconds it returns are not
\* negative, whatever the input, digit strings and products beyond int64 included.
C6_NonNegative ==
  pc = "ParseDuration" /\ ret.err = nil => ~IsNeg64(ret.seconds)

\* C7: a trimmed input that is wholly hours:minutes or hours:minutes:seconds returns
\* hours * 3600 + minutes * 60 + seconds; an input that only contains a colon form is
\* not read as one: it succeeds only by its number-unit terms.
C7_ColonNotation ==
  pc = "ParseDuration" =>
    LET s == TrimmedInput(args.input)
    IN /\ IsColonForm(s) => ret.err = nil /\ IsNumber(ret.seconds, ColonValue(s))
       /\ s # <<>> /\ s[1] # "-" /\ ~IsColonForm(s) /\ ret.err = nil => ContainsTerm(s)

\* What does hold: the same for the colon forms whose value is an int64.
ColonNotationInRange ==
  pc = "ParseDuration" =>
    LET s == TrimmedInput(args.input)
    IN /\ IsColonForm(s) /\ BitLen(ColonValue(s)) <= 63
         => ret.err = nil /\ IsNumber(ret.seconds, ColonValue(s))
       /\ s # <<>> /\ s[1] # "-" /\ ~IsColonForm(s) /\ ret.err = nil => ContainsTerm(s)

\* C8: a trimmed input that is no colon form, has no leading "-" and contains a term
\* returns the sum over its terms of value * multiplier, a fractional value
\* multiplied and cut to an integer term by term; the text between the terms is
\* skipped.
C8_TermSum ==
  pc = "ParseDuration" =>
    LET s == TrimmedInput(args.input)
    IN s # <<>> /\ s[1] # "-" /\ ~IsColonForm(s) /\ ContainsTerm(s)
         => ret.err = nil /\ IsNumber(ret.seconds, TermSum(s))

\* What does hold: the same for the inputs whose unit letters are ASCII and whose
\* sum is an int64.
TermSumInRange ==
  pc = "ParseDuration" =>
    LET s == TrimmedInput(args.input)
    IN s # <<>> /\ s[1] # "-" /\ ~IsColonForm(s) /\ ContainsTerm(s)
       /\ (\A i \in 1..Len(s) : s[i] # LongS) /\ BitLen(TermSum(s)) <= 63
         => ret.err = nil /\ IsNumber(ret.seconds, TermSum(s))

(***************************************************************************)
(* C9, C10.  HumanDate and DateRange                                       *)
(***************************************************************************)
\* the day of an instant, counted from 1 January 1970
DayNumber(t) == t \div 86400

LeapYear(y) == (y % 4 = 0 /\ y % 100 # 0) \/ y % 400 = 0

DaysInMonth(y, m) ==
  IF m = 2 THEN (IF LeapYear(y) THEN 29 ELSE 28)
  ELSE IF m \in {4, 6, 9, 11} THEN 30 ELSE 31

\* the day number of the date d.m.y of the Gregorian calendar: years from 1 March,
\* in eras of 400 years
DaysFromCivil(y, m, d) ==
  LET yy == IF m <= 2 THEN y - 1 ELSE y
      era == yy \div 400
      yoe == yy - era * 400
      doy == ((153 * (IF m > 2 THEN m - 3 ELSE m + 9) + 2) \div 5) + d - 1
      doe == yoe * 365 + (yoe \div 4) - (yoe \div 100) + doy
  IN era * 146097 + doe - 719468

\* the date of a day number
CivilDate(day) ==
  CHOOSE c \in [y : (1969 + (day \div 366))..(1971 + (day \div 365)), m : 1..12, d : 1..31] :
    c.d <= DaysInMonth(c.y, c.m) /\ DaysFromCivil(c.y, c.m, c.d) = day

\* 1 January 1970 was a Thursday
WeekdayName(day) ==
  CASE (day + 4) % 7 = 0 -> <<"S", "u", "n", "d", "a", "y">>
    [] (day + 4) % 7 = 1 -> <<"M", "o", "n", "d", "a", "y">>
    [] (day + 4) % 7 = 2 -> <<"T", "u", "e", "s", "d", "a", "y">>
    [] (day + 4) % 7 = 3 -> <<"W", "e", "d", "n", "e", "s", "d", "a", "y">>
    [] (day + 4) % 7 = 4 -> <<"T", "h", "u", "r", "s", "d", "a", "y">>
    [] (day + 4) % 7 = 5 -> <<"F", "r", "i", "d", "a", "y">>
    [] OTHER -> <<"S", "a", "t", "u", "r", "d", "a", "y">>

MonthName(m) ==
  CASE m = 1 -> <<"J", "a", "n", "u", "a", "r", "y">>
    [] m = 2 -> <<"F", "e", "b", "r", "u", "a", "r", "y">>
    [] m = 3 -> <<"M", "a", "r", "c", "h">>
    [] m = 4 -> <<"A", "p", "r", "i", "l">>
    [] m = 5 -> <<"M", "a", "y">>
    [] m = 6 -> <<"J", "u", "n", "e">>
    [] m = 7 -> <<"J", "u", "l", "y">>
    [] m = 8 -> <<"A", "u", "g", "u", "s", "t">>
    [] m = 9 -> <<"S", "e", "p", "t", "e", "m", "b", "e", "r">>
    [] m = 10 -> <<"O", "c", "t", "o", "b", "e", "r">>
    [] m = 11 -> <<"N", "o", "v", "e", "m", "b", "e", "r">>
    [] OTHER -> <<"D", "e", "c", "e", "m", "b", "e", "r">>

\* "{Month} {day}" and "{Month} {day}, {year}"
MonthDayText(c) == MonthName(c.m) \o <<" ">> \o DecimalText(c.d)

FullDateText(c) == MonthDayText(c) \o <<",", " ">> \o DecimalText(c.y)

ExpectedHumanDate(t, r) ==
  LET dayDiff == DayNumber(t) - DayNumber(r)
  IN CASE dayDiff = 0 -> <<"T", "o", "d", "a", "y">>
       [] dayDiff = -1 -> <<"Y", "e", "s", "t", "e", "r", "d", "a", "y">>
       [] dayDiff = 1 -> <<"T", "o", "m", "o", "r", "r", "o", "w">>
       [] dayDiff \in -6..-2 -> <<"L", "a", "s", "t", " ">> \o WeekdayName(DayNumber(t))
       [] dayDiff \in 2..6 -> <<"T", "h", "i", "s", " ">> \o WeekdayName(DayNumber(t))
       [] OTHER -> IF CivilDate(DayNumber(t)).y = CivilDate(DayNumber(r)).y
                   THEN MonthDayText(CivilDate(DayNumber(t)))
                   ELSE FullDateText(CivilDate(DayNumber(t)))

EnDash == "U+2013"

\* the label of the days lo <= hi
ExpectedRange(lo, hi) ==
  LET a == CivilDate(lo)
      b == CivilDate(hi)
  IN IF a.y # b.y THEN FullDateText(a) \o <<" ", EnDash, " ">> \o FullDateText(b)
     ELSE IF a.m # b.m THEN MonthDayText(a) \o <<" ", EnDash, " ">> \o FullDateText(b)
     ELSE MonthDayText(a) \o <<EnDash>> \o DecimalText(b.d) \o <<",", " ">> \o DecimalText(a.y)

\* C10: DateRange(start, end), the two put in order first, is the label of a single
\* day when both are on one day, "{Month} {startDay}-{endDay}, {year}" within a
\* month, "{StartMonth} {startDay} - {EndMonth} {endDay}, {year}" within a year, and
\* "{Month} {day}, {year} - {Month} {day}, {year}" across years (the dashes are en
\* dashes).
C10_DateRange ==
  pc = "DateRange" =>
    LET lo == DayNumber(IF args.end < args.start THEN args.end ELSE args.start)
        hi == DayNumber(IF args.end < args.start THEN args.start ELSE args.end)
    IN IF lo = hi
         THEN ret.out # <<>> /\ \A i \in 1..Len(ret.out) : ret.out[i] # EnDash
       ELSE ret.out = ExpectedRange(lo, hi)

(***************************************************************************)
(* C11.  The error kinds                                                   *)
(***************************************************************************)
ErrorKinds == {ErrNegativeDuration, ErrEmptyInput, ErrUnparseable, ErrNegativeValue}

\* the kinds errors.Is reports err as
KindsOf(err) == {k \in ErrorKinds : Is(err, k)}

\* C11: the four error kinds are not nil and errors.Is reports none of them as
\* another, so every failure Duration or ParseDuration returns is of exactly one kind.
C11_ErrorsDistinct ==
  /\ Cardinality(ErrorKinds) = 4
  /\ \A a \in ErrorKinds : a # nil /\ ~Is(a, nil)
  /\ \A a \in ErrorKinds : \A b \in ErrorKinds \ {a} : ~Is(a, b)
  /\ pc \in {"Duration", "ParseDuration"} /\ ret.err # nil
       => Cardinality(KindsOf(ret.err)) = 1

\* a failure of each function, of its one kind
C11_Witness ==
  \/ /\ pc = "ParseDuration"
     /\ args.input = <<"5", "x">>
     /\ KindsOf(ret.err) = {ErrUnparseable}
  \/ /\ pc = "Duration"
     /\ args.seconds = -1
     /\ KindsOf(ret.err) = {ErrNegativeDuration}

(***************************************************************************)
(* C12.  The counts TimeAgo writes                                         *)
(***************************************************************************)
JustNow == <<"j", "u", "s", "t", " ", "n", "o", "w">>

\* "{count} {unit}": the phrase without its "in " or its " ago"
CountAndUnit(out) ==
  IF SubSeq(out, 1, 3) = <<"i", "n", " ">> THEN SubSeq(out, 4, Len(out))
  ELSE SubSeq(out, 1, Len(out) - 4)

CountText(out) ==
  SubSeq(CountAndUnit(out), 1,
         (CHOOSE i \in 1..Len(CountAndUnit(out)) :
            CountAndUnit(out)[i] = " " /\ \A j \in 1..(i - 1) : CountAndUnit(out)[j] # " ") - 1)

IsPlural(out) == CountAndUnit(out)[Len(CountAndUnit(out))] = "s"

\* the gap is in one of the buckets that write "1 {unit}"
InFixedBucket(gap) ==
  \/ ~GapBelow(gap, 45) /\ GapBelow(gap, 90)
  \/ ~GapBelow(gap, 2700) /\ GapBelow(gap, 5400)
  \/ ~GapBelow(gap, 79200) /\ GapBelow(gap, 129600)
  \/ ~GapBelow(gap, 2246400) /\ GapBelow(gap, 3974400)
  \/ ~GapBelow(gap, 27648000) /\ GapBelow(gap, 47347200)

\* C12: in the buckets that round (minutes from 90 s, hours from 5400 s, days from
\* 129600 s, months from 3974400 s, years from 47347200 s) the count is at least 2
\* for every gap, so for every instant and reference TimeAgo writes no count 0, no
\* plural unit after the count 1, and a singular unit only for a gap |r - t| in one
\* of the "1 {unit}" buckets.
C12_CountsAtLeastTwo ==
  pc = "TimeAgo" /\ ret.out # JustNow =>
    /\ CountText(ret.out) # <<"0">>
    /\ (CountText(ret.out) = <<"1">>) <=> ~IsPlural(ret.out)
    /\ ~IsPlural(ret.out) => InFixedBucket(TrueGap(args.timestamp, args.reference[1]))

\* What does hold: no count 0 and a plural unit exactly after a count of 2 or more,
\* in every call; and a singular unit only in the "1 {unit}" buckets, in the calls
\* whose difference r - t is itself an int64.
CountsInRange ==
  pc = "TimeAgo" /\ ret.out # JustNow =>
    /\ CountText(ret.out) # <<"0">>
    /\ (CountText(ret.out) = <<"1">>) <=> ~IsPlural(ret.out)
    /\ ~IsPlural(ret.out) /\ TrueGap(args.timestamp, args.reference[1])[4] < Pow2(15)
         => InFixedBucket(TrueGap(args.timestamp, args.reference[1]))
====
